---- MODULE Spec2Model ----
(***************************************************************************)
(* Model of price_engine/src/main.rs: the PythOracle price fetch, the      *)
(* bounded price cache of OptionsPricingEngine (last_prices) and the       *)
(* pricing path (calculate_option_premium, calculate_premium_curve).       *)
(*                                                                         *)
(* Conventions                                                             *)
(*  - symbols are the numbers 0..NumFeeds; SUI, BTC and ETH are the three  *)
(*    names the source mentions.  Strings compare only by equality in the  *)
(*    code, so any injective naming is faithful.                           *)
(*  - f64 values are integers: every strike, step and price used here is   *)
(*    an integer for which f64 arithmetic is exact.                        *)
(*  - each critical section of the RwLock (a block between write()/read()  *)
(*    and the drop of the guard) holds no await, so it is one atomic step. *)
(*  - a panic (unwrap on Err, HashMap index on a missing key, slice index  *)
(*    out of range) ends the call with outcome "panicked".                 *)
(*                                                                         *)
(* Specifications                                                          *)
(*  - Spec:        two tasks run start_price_updates concurrently          *)
(*  - SpecCache:   start_price_updates calls run one after the other       *)
(*  - SpecRead:    one task runs start_price_updates, one get_last_price   *)
(*  - SpecPricing: the engine main() builds: a client of the pricing path  *)
(*                 and a task refreshing the SUI price                     *)
(*  - SpecFrame:   SpecPricing's engine with a reader of the cache         *)
(*  - SpecFetch:   one caller of fetch_pyth_price_real, every stream       *)
(*  - SpecVol:     the pricing path with either Result of the volatility   *)
(*                 fetch                                                   *)
(*  - SpecLive:    two refreshing tasks and a reader, with fair sections   *)
(*  - SpecList:    SpecCache with lists of several symbols                 *)
(* PythOracle::new registers SUI alone; with that registry the cache never *)
(* holds more than one entry, so Spec, SpecCache, SpecRead and SpecList    *)
(* take a registry of NumFeeds feeds.                                      *)
(***************************************************************************)
EXTENDS Integers, Sequences, FiniteSets, TLC

\* ------------------------------------------------------------------ bounds

\* number of feeds of the large registry (must exceed K to fill the cache)
NumFeeds == 11
\* number of start_price_updates calls in the cache specifications
MaxCalls == 11
\* number of events of a price stream
MaxStreamLen == 3
\* number of oracle fetches of one pricing call (caps a curve that never ends)
MaxFetches == 8
\* number of start_price_updates calls in the pricing specification
MaxRefresh == 2

\* ------------------------------------------------------- program constants

\* main.rs:203  if prices.len() >= 10
K == 10

\* EngineConfig::default, in percent and in tenths
RiskFreeRate == 5
DefaultVolatility == 8

SUI == 1
BTC == 2
ETH == 3
\* a symbol no registry holds
NoSuchSymbol == 0

\* Option<T>: None is the empty sequence, Some(x) is <<x>>
None == <<>>
Some(x) == <<x>>

\* the fallback name of line 133, "UNKNOWN": a name no registry holds
UNKNOWN == 99

Updaters == {"u1", "u2"}

\* ------------------------------------------------------------------ oracle

\* the feed identifier registered for a symbol (price_feeds values are
\* opaque strings; distinct symbols get distinct identifiers)
FeedIdOf(s) == 1000 + s

\* PythOracle::new registers SUI only
NewPriceFeeds == [s \in {SUI} |-> FeedIdOf(s)]

\* a registry with NumFeeds feeds, as the struct field allows
LargePriceFeeds == [s \in 1..NumFeeds |-> FeedIdOf(s)]

\* What one parsed price feed of an update carries (price, expo, conf,
\* publish_time).  Every feed has a quote of its own; the SUI feed has a
\* second one, so that two fetches of one feed can differ.
QuotesOf(feed_id) ==
  { [price |-> feed_id, expo |-> 0, conf |-> 1, publish_time |-> 1] }
  \cup (IF feed_id = FeedIdOf(SUI)
        THEN { [price |-> 11, expo |-> 1, conf |-> 2, publish_time |-> 2] }
        ELSE {})

\* the items a price stream yields: Some(Err(e)), or Some(Ok(update)) whose
\* parsed field is None or a list of price feeds
StreamItems(feed_id) ==
  { [kind |-> "err", parsed |-> <<>>],
    [kind |-> "ok_unparsed", parsed |-> <<>>],
    [kind |-> "ok", parsed |-> <<>>] }
  \cup { [kind |-> "ok", parsed |-> <<q>>] : q \in QuotesOf(feed_id) }

RECURSIVE SeqsUpTo(_, _)
SeqsUpTo(S, n) ==
  IF n = 0 THEN { <<>> }
  ELSE LET shorter == SeqsUpTo(S, n - 1)
       IN  shorter \cup { Append(w, x) : w \in { v \in shorter : Len(v) = n - 1 }, x \in S }

\* finite streams: the items delivered before the stream ends
Streams(feed_id) == SeqsUpTo(StreamItems(feed_id), MaxStreamLen)

RECURSIVE Pow10(_)
Pow10(e) == IF e = 0 THEN 1 ELSE 10 * Pow10(e - 1)

\* the mutant of SymbolOfFeed: the lookup finds nothing
SymbolOfFeedUnknown(feeds, feed_id) == UNKNOWN

\* the key of price_feeds whose value is feed_id, else "UNKNOWN"
SymbolOfFeed(feeds, feed_id) ==
  IF \E s \in DOMAIN feeds : feeds[s] = feed_id
  THEN CHOOSE s \in DOMAIN feeds : feeds[s] = feed_id
  ELSE UNKNOWN

PriceData(feeds, feed_id, q) ==
  [symbol     |-> SymbolOfFeed(feeds, feed_id),
   price      |-> q.price * Pow10(q.expo),
   timestamp  |-> q.publish_time,
   confidence |-> q.conf]

OkData(d) == [ok |-> TRUE, data |-> Some(d), err |-> ""]
ErrOf(e) == [ok |-> FALSE, data |-> None, err |-> e]

\* the mutant of ConsumeStream: the first item that is not a sample ends the
\* loop with an error (return for continue)
ConsumeStreamNoSkip(feeds, feed_id, stream) ==
  IF stream = <<>>
  THEN ErrOf("stream ended without valid data")
  ELSE LET item == Head(stream)
       IN  IF item.kind = "ok" /\ item.parsed # <<>>
           THEN OkData(PriceData(feeds, feed_id, item.parsed[1]))
           ELSE ErrOf("stream ended without valid data")

\* the loop of fetch_pyth_price_real over the items of the stream
RECURSIVE ConsumeStream(_, _, _)
ConsumeStream(feeds, feed_id, stream) ==
  IF stream = <<>>
  THEN ErrOf("stream ended without valid data")
  ELSE LET item == Head(stream)
       IN  IF item.kind = "ok" /\ item.parsed # <<>>
           THEN OkData(PriceData(feeds, feed_id, item.parsed[1]))
           ELSE ConsumeStream(feeds, feed_id, Tail(stream))

\* the mutant of FetchPythPriceReal: the result of opening the subscription is
\* not looked at
FetchIgnoringOpenFailure(feeds, feed_id, opened, stream) ==
  ConsumeStream(feeds, feed_id, stream)

\* fetch_pyth_price_real: opening the subscription may fail (the ? on
\* stream_price_updates); otherwise the stream is consumed
FetchPythPriceReal(feeds, feed_id, opened, stream) ==
  IF ~opened THEN ErrOf("transport")
  ELSE ConsumeStream(feeds, feed_id, stream)

\* every result a fetch can have, per registry and feed identifier
FetchTable ==
  [feeds \in {NewPriceFeeds, LargePriceFeeds} |->
     [feed_id \in { FeedIdOf(s) : s \in 1..NumFeeds } |->
        { FetchPythPriceReal(feeds, feed_id, opened, stream) :
            opened \in BOOLEAN, stream \in Streams(feed_id) }]]

\* every result a fetch for feed_id can have
FetchResults(feeds, feed_id) == FetchTable[feeds][feed_id]

\* ------------------------------------------------------------------- state

VARIABLES
  price_feeds,   \* PythOracle.price_feeds: symbol -> feed identifier
  last_prices,   \* OptionsPricingEngine.last_prices: symbol -> PriceData
  upd,           \* per task running start_price_updates: its position, its locals,
                 \* and (history) whether its first section removed an entry
  got,           \* the reader: the value get_last_price returned
  ncalls,        \* history: start_price_updates calls started
  used,          \* history: number of distinct registered symbols requested
  lastInserted,  \* history: symbol -> sample most recently inserted for it
  pr,            \* the task on the pricing path: its call, position and locals
  fetchLog,      \* history: the oracle fetches of the pricing call in progress
  fx,            \* a task calling fetch_pyth_price_real: its arguments, the
                 \* stream the service delivers to it, and its result
  lock           \* the RwLock of last_prices: "free", the task holding it for
                 \* writing, or "poisoned"

vars == <<price_feeds, last_prices, upd, got, ncalls, used,
          lastInserted, pr, fetchLog, fx, lock>>

EmptyMap == [s \in {} |-> 0]

\* the value of a local that is not yet assigned
NoData == [symbol |-> NoSuchSymbol, price |-> 0, timestamp |-> 0, confidence |-> 0]

IdleUpd ==
  [pc |-> "idle", symbols |-> <<>>, last_price |-> NoData, outcome |-> "none",
   evicted |-> FALSE]

IdleReader == [pc |-> "idle", symbol |-> NoSuchSymbol, result |-> None]

\* no pricing call in progress
IdlePr ==
  [op |-> "none", pc |-> "idle", symbol |-> NoSuchSymbol, days_to_expiry |-> 0,
   strike |-> 0, is_call |-> FALSE,
   min_strike |-> 0, max_strike |-> 0, step |-> 0, current_strike |-> 0,
   results |-> <<>>, call_premium |-> None,
   outcome |-> "none", error |-> "", value |-> <<>>]

\* no fetch_pyth_price_real call in progress
IdleFx ==
  [pc |-> "idle", feed_id |-> 0, opened |-> FALSE, stream |-> <<>>,
   result |-> ErrOf("")]

\* OptionsPricingEngine::new: an empty cache
InitEngine ==
  /\ last_prices = EmptyMap
  /\ upd = [p \in Updaters |-> IdleUpd]
  /\ got = IdleReader
  /\ ncalls = 0
  /\ used = 0
  /\ lastInserted = EmptyMap
  /\ pr = IdlePr
  /\ fetchLog = <<>>
  /\ fx = IdleFx
  /\ lock = "free"

Init ==
  /\ price_feeds = LargePriceFeeds
  /\ InitEngine

Size(m) == Cardinality(DOMAIN m)

\* history bookkeeping: h with v noted for k
Recorded(h, k, v) == (k :> v) @@ h

\* HashMap::insert
MapInsert(m, k, v) == [x \in DOMAIN m \cup {k} |-> IF x = k THEN v ELSE m[x]]

\* HashMap::remove
MapRemove(m, k) == [x \in DOMAIN m \ {k} |-> m[x]]

\* ------------------------------------------------- start_price_updates

\* the lock after task p panicked: a guard dropped while unwinding poisons it
Unwound(p) == IF lock = p THEN "poisoned" ELSE lock

\* the lock after task p's future was dropped: its guards are released
Dropped(p) == IF lock = p THEN "free" ELSE lock

\* the mutant of StartPriceUpdates: the write guard is taken before the fetch
\* and is alive across the await
StartPriceUpdatesHoldingLock(p, symbols) ==
  /\ upd[p].pc = "idle"
  /\ lock = "free"
  /\ ncalls' = ncalls + 1
  /\ IF symbols = <<>> \/ symbols[1] \notin DOMAIN price_feeds
     THEN /\ upd' = [upd EXCEPT ![p] = [IdleUpd EXCEPT !.outcome = "panicked"]]
          /\ used' = used
          /\ lock' = "poisoned"
     ELSE /\ upd' = [upd EXCEPT ![p] = [IdleUpd EXCEPT !.pc = "fetch",
                                                       !.symbols = symbols]]
          /\ used' = IF symbols[1] > used THEN symbols[1] ELSE used
          /\ lock' = p
  /\ UNCHANGED <<fx, pr, fetchLog, price_feeds, last_prices, got, lastInserted>>

\* The call up to its await: symbols[0] and price_feeds[..] are evaluated
\* (either index may panic), then the fetch is in flight.  No guard is taken.
StartPriceUpdates(p, symbols) ==
  /\ upd[p].pc = "idle"
  /\ ncalls' = ncalls + 1
  /\ IF symbols = <<>> \/ symbols[1] \notin DOMAIN price_feeds
     THEN /\ upd' = [upd EXCEPT ![p] = [IdleUpd EXCEPT !.outcome = "panicked"]]
          /\ used' = used
          /\ lock' = Unwound(p)
     ELSE /\ upd' = [upd EXCEPT ![p] = [IdleUpd EXCEPT !.pc = "fetch",
                                                       !.symbols = symbols]]
          /\ used' = IF symbols[1] > used THEN symbols[1] ELSE used
          /\ lock' = lock
  /\ UNCHANGED <<fx, pr, fetchLog, price_feeds, last_prices, got, lastInserted>>

\* The fetch resolves; unwrap() panics on Err.
UpdateFetched(p) ==
  /\ upd[p].pc = "fetch"
  /\ \E r \in FetchResults(price_feeds, price_feeds[upd[p].symbols[1]]) :
       /\ upd' = [upd EXCEPT ![p] =
                    IF r.ok
                    THEN [@ EXCEPT !.pc = "evict", !.last_price = r.data[1]]
                    ELSE [IdleUpd EXCEPT !.outcome = "panicked"]]
       /\ lock' = IF r.ok THEN lock ELSE Unwound(p)
  /\ UNCHANGED <<fx, pr, fetchLog, price_feeds, last_prices, got, ncalls, used,
                 lastInserted>>

\* The caller drops the future while the fetch is in flight (line 199 is the
\* only await of the call): nothing after the await runs.
UpdateCancelled(p) ==
  /\ upd[p].pc = "fetch"
  /\ upd' = [upd EXCEPT ![p] = [IdleUpd EXCEPT !.outcome = "cancelled"]]
  /\ lock' = Dropped(p)
  /\ UNCHANGED <<fx, pr, fetchLog, price_feeds, last_prices, got, ncalls, used,
                 lastInserted>>

\* the mutant of CacheFull: > for >=
CacheFullOffByOne(m) == Size(m) > K

\* line 203: prices.len() >= 10
CacheFull(m) == Size(m) >= K

\* the keys keys().next() can yield: HashMap iteration order is unspecified
FirstKeys(m) == DOMAIN m

\* First critical section (lines 201-208): when the map holds 10 or more
\* entries, the first key in iteration order is removed.  write() waits while
\* the lock is held and unwrap() panics on a poisoned lock; the guard is
\* dropped at the closing brace.
EvictSection(p) ==
  /\ upd[p].pc = "evict"
  /\ lock \in {"free", "poisoned"}
  /\ IF lock = "poisoned"
     THEN /\ last_prices' = last_prices
          /\ upd' = [upd EXCEPT ![p] = [IdleUpd EXCEPT !.outcome = "panicked"]]
     ELSE IF CacheFull(last_prices)
     THEN \E key_to_remove \in FirstKeys(last_prices) :
            /\ last_prices' = MapRemove(last_prices, key_to_remove)
            /\ upd' = [upd EXCEPT ![p].pc = "insert", ![p].evicted = TRUE]
     ELSE /\ last_prices' = last_prices
          /\ upd' = [upd EXCEPT ![p].pc = "insert"]
  /\ UNCHANGED <<fx, lock, pr, fetchLog, price_feeds, got, ncalls, used, lastInserted>>

\* the mutant of InsertSection: the sample is stored under every listed symbol
InsertSectionAll(p) ==
  /\ upd[p].pc = "insert"
  /\ lock \in {"free", "poisoned"}
  /\ IF lock = "poisoned"
     THEN /\ upd' = [upd EXCEPT ![p] = [IdleUpd EXCEPT !.outcome = "panicked"]]
          /\ UNCHANGED <<last_prices, lastInserted>>
     ELSE /\ last_prices' =
               [x \in DOMAIN last_prices \cup { upd[p].symbols[i] : i \in 1..Len(upd[p].symbols) } |->
                  IF \E i \in 1..Len(upd[p].symbols) : upd[p].symbols[i] = x
                  THEN upd[p].last_price ELSE last_prices[x]]
          /\ upd' = [upd EXCEPT ![p] = [IdleUpd EXCEPT !.outcome = "returned"]]
          /\ lastInserted' = Recorded(lastInserted, upd[p].symbols[1], upd[p].last_price)
  /\ UNCHANGED <<fx, lock, pr, fetchLog, price_feeds, got, ncalls, used>>

\* Second critical section (line 209): insert under symbols[0].
InsertSection(p) ==
  /\ upd[p].pc = "insert"
  /\ lock \in {"free", "poisoned"}
  /\ IF lock = "poisoned"
     THEN /\ upd' = [upd EXCEPT ![p] = [IdleUpd EXCEPT !.outcome = "panicked"]]
          /\ UNCHANGED <<last_prices, lastInserted>>
     ELSE /\ last_prices' = MapInsert(last_prices, upd[p].symbols[1], upd[p].last_price)
          /\ upd' = [upd EXCEPT ![p] = [IdleUpd EXCEPT !.outcome = "returned"]]
          /\ lastInserted' = Recorded(lastInserted, upd[p].symbols[1], upd[p].last_price)
  /\ UNCHANGED <<fx, lock, pr, fetchLog, price_feeds, got, ncalls, used>>

\* ------------------------------------------------------- get_last_price

\* self.last_prices.read().unwrap().get(symbol).cloned()
get_last_price(m, symbol) == IF symbol \in DOMAIN m THEN Some(m[symbol]) ELSE None

\* the mutant of GetLastPrice: the entry is taken out of the map (remove for
\* get)
GetLastPriceTaking(symbol) ==
  /\ got.pc = "idle"
  /\ lock = "free"
  /\ got' = [pc |-> "returned", symbol |-> symbol,
             result |-> get_last_price(last_prices, symbol)]
  /\ last_prices' = [x \in DOMAIN last_prices \ {symbol} |-> last_prices[x]]
  /\ UNCHANGED <<fx, lock, pr, fetchLog, price_feeds, upd, ncalls, used, lastInserted>>

\* read() waits while a writer holds the lock; unwrap() panics on a poisoned
\* lock
GetLastPrice(symbol) ==
  /\ got.pc = "idle"
  /\ lock \in {"free", "poisoned"}
  /\ got' = IF lock = "poisoned"
            THEN [pc |-> "panicked", symbol |-> symbol, result |-> None]
            ELSE [pc |-> "returned", symbol |-> symbol,
                  result |-> get_last_price(last_prices, symbol)]
  /\ UNCHANGED <<fx, lock, pr, fetchLog, price_feeds, last_prices, upd, ncalls, used,
                 lastInserted>>

\* the caller takes the value
ReaderReturn ==
  /\ got.pc = "returned"
  /\ got' = IdleReader
  /\ UNCHANGED <<fx, lock, pr, fetchLog, price_feeds, last_prices, upd, ncalls, used,
                 lastInserted>>


\* ------------------------------------------------- fetch_pyth_price_real

\* the feed identifiers a caller passes: the registered one and one that no
\* symbol of the registry maps to
CalledFeeds == {FeedIdOf(SUI), FeedIdOf(BTC)}

\* A call of fetch_pyth_price_real(feed_id) begins.  What the service will do
\* is fixed here: whether the subscription opens, and the items it delivers
\* before the stream ends.
FetchCall(feed_id, opened, stream) ==
  /\ fx.pc = "idle"
  /\ fx' = [IdleFx EXCEPT !.pc = "running", !.feed_id = feed_id,
                          !.opened = opened, !.stream = stream]
  /\ UNCHANGED <<lock, pr, fetchLog, price_feeds, last_prices, upd, got, ncalls,
                 used, lastInserted>>

\* the call resolves
FetchResolve ==
  /\ fx.pc = "running"
  /\ fx' = [fx EXCEPT !.pc = "done",
                      !.result = FetchPythPriceReal(price_feeds, fx.feed_id,
                                                    fx.opened, fx.stream)]
  /\ UNCHANGED <<lock, pr, fetchLog, price_feeds, last_prices, upd, got, ncalls,
                 used, lastInserted>>

\* the caller takes the result
FetchReturn ==
  /\ fx.pc = "done"
  /\ fx' = IdleFx
  /\ UNCHANGED <<lock, pr, fetchLog, price_feeds, last_prices, upd, got, ncalls,
                 used, lastInserted>>

\* ------------------------------------------------------------ pricing path

\* fetch_volatility: a fixed value per symbol, in tenths; it never fails
FetchVolatility(symbol) ==
  [ok |-> TRUE,
   vol |-> CASE symbol = BTC -> 8
             [] symbol = ETH -> 9
             [] symbol = SUI -> 12
             [] OTHER -> 10]

\* a volatility fetch that returned Err
VolatilityFailed == [ok |-> FALSE, vol |-> 0]

\* the mutant of UnwrapOr: the fetched value is dropped
UnwrapOrDefault(r, default) == default

\* .unwrap_or(self.config.default_volatility)
UnwrapOr(r, default) == IF r.ok THEN r.vol ELSE default

\* the mutant of UnderlyingPrice: the cached price when there is one
UnderlyingPriceFromCache(price_data, cache, symbol) ==
  IF symbol \in DOMAIN cache THEN cache[symbol].price ELSE price_data.price

\* line 244: let underlying_price = price_data.price (the cache is not read)
UnderlyingPrice(price_data, cache, symbol) == price_data.price

\* BlackScholes::calculate_premium: the closed form is a function of the
\* parameters; its value is kept as the term of its arguments
BlackScholesPremium(params) == params

\* calculate_option_premium from the point where its fetch has resolved with
\* r; vr is what fetch_volatility returned; valued tells whether calc_price()
\* returned Ok (unwrap() panics if not)
PremiumAfterFetch(symbol, strike, days_to_expiry, is_call, r, vr, valued, cache, now) ==
  IF ~r.ok
  THEN [kind |-> "err", error |-> "Failed to fetch price for symbol", value |-> None]
  ELSE LET price_data == r.data[1]
           volatility == UnwrapOr(vr, DefaultVolatility)
           params == [underlying_price |-> UnderlyingPrice(price_data, cache, symbol),
                      strike_price     |-> strike,
                      time_to_expiry   |-> days_to_expiry,
                      volatility       |-> volatility,
                      risk_free_rate   |-> RiskFreeRate,
                      is_call          |-> is_call]
       IN  IF ~valued
           THEN [kind |-> "panicked", error |-> "calc_price", value |-> None]
           ELSE [kind |-> "ok", error |-> "",
                 value |-> Some([strike    |-> strike,
                                 premium   |-> BlackScholesPremium(params),
                                 timestamp |-> now])]

\* history: one fetch of the pricing path, from its start to its result
PendingFetch(strike, is_call) ==
  [strike |-> strike, is_call |-> is_call, state |-> "pending", price |-> 0,
   vol |-> "pending", calc |-> "pending"]

Resolved(log, r, vr, kind) ==
  [log EXCEPT ![Len(log)] =
     [@ EXCEPT !.state = IF r.ok THEN "ok" ELSE "err",
               !.price = IF r.ok THEN r.data[1].price ELSE 0,
               !.vol   = IF ~r.ok THEN "none" ELSE IF vr.ok THEN "ok" ELSE "err",
               !.calc  = kind]]

\* calculate_option_premium called by a client: price_feeds[symbol] panics
\* for a symbol the registry lacks, otherwise the fetch is in flight
CallOptionPremium(symbol, strike, days_to_expiry, is_call) ==
  /\ pr.pc = "idle"
  /\ IF symbol \notin DOMAIN price_feeds
     THEN /\ pr' = [IdlePr EXCEPT !.op = "premium", !.pc = "done", !.symbol = symbol,
                                  !.days_to_expiry = days_to_expiry,
                                  !.strike = strike, !.is_call = is_call,
                                  !.outcome = "panicked", !.error = "key not found"]
          /\ fetchLog' = <<>>
     ELSE /\ pr' = [IdlePr EXCEPT !.op = "premium", !.pc = "fetch", !.symbol = symbol,
                                  !.days_to_expiry = days_to_expiry,
                                  !.strike = strike, !.is_call = is_call]
          /\ fetchLog' = <<PendingFetch(strike, is_call)>>
  /\ UNCHANGED <<fx, lock, price_feeds, last_prices, upd, got, ncalls, used, lastInserted>>

\* the mutant of LoopContinues: < for <=
LoopContinuesStrict(current_strike, max_strike) == current_strike < max_strike

\* line 277: while current_strike <= max_strike
LoopContinues(current_strike, max_strike) == current_strike <= max_strike

\* the mutant of NextStrike: the step is added twice
NextStrikeTwice(current_strike, step) == current_strike + step + step

\* line 299: current_strike += step
NextStrike(current_strike, step) == current_strike + step

\* calculate_premium_curve called by a client, up to its first await
CallPremiumCurve(symbol, days_to_expiry, min_strike, max_strike, step) ==
  /\ pr.pc = "idle"
  /\ LET entered == [IdlePr EXCEPT !.op = "curve", !.symbol = symbol,
                                   !.days_to_expiry = days_to_expiry,
                                   !.min_strike = min_strike,
                                   !.max_strike = max_strike, !.step = step,
                                   !.current_strike = min_strike]
     IN  IF ~LoopContinues(min_strike, max_strike)
         THEN /\ pr' = [entered EXCEPT !.pc = "done", !.outcome = "ok"]
              /\ fetchLog' = <<>>
         ELSE IF symbol \notin DOMAIN price_feeds
         THEN /\ pr' = [entered EXCEPT !.pc = "done", !.outcome = "panicked",
                                       !.error = "key not found"]
              /\ fetchLog' = <<>>
         ELSE /\ pr' = [entered EXCEPT !.pc = "fetch", !.strike = min_strike,
                                       !.is_call = TRUE]
              /\ fetchLog' = <<PendingFetch(min_strike, TRUE)>>
  /\ UNCHANGED <<fx, lock, price_feeds, last_prices, upd, got, ncalls, used, lastInserted>>

\* the mutant of CurveFailure: the error is dropped and the results so far
\* are returned
CurveFailureReturnsPartial(c, sub) ==
  [c EXCEPT !.pc = "done", !.outcome = "ok", !.value = c.results]

\* the ? of lines 281 and 285: the curve ends with the failure of the
\* premium calculation, its results are dropped
CurveFailure(c, sub) ==
  [c EXCEPT !.pc = "done", !.outcome = sub.kind, !.error = sub.error,
            !.results = <<>>, !.call_premium = None]

\* The fetch of the pricing call resolves.  calculate_option_premium runs to
\* its end; inside a curve the loop then runs on to its next await or to its
\* return.
PricingFetchedGiven(volatilities) ==
  /\ pr.pc = "fetch"
  /\ \E r \in FetchResults(price_feeds, price_feeds[pr.symbol]),
        vr \in volatilities, valued \in BOOLEAN :
       LET sub == PremiumAfterFetch(pr.symbol, pr.strike, pr.days_to_expiry,
                                    pr.is_call, r, vr, valued, last_prices,
                                    Len(fetchLog))
           log == Resolved(fetchLog, r, vr, sub.kind)
       IN  IF pr.op = "premium"
           THEN /\ pr' = [pr EXCEPT !.pc = "done", !.outcome = sub.kind,
                                    !.error = sub.error, !.value = sub.value]
                /\ fetchLog' = log
           ELSE IF sub.kind # "ok"
           THEN /\ pr' = CurveFailure(pr, sub)
                /\ fetchLog' = log
           ELSE IF pr.is_call
           THEN \* line 283: the put premium of the same strike
                /\ Len(log) < MaxFetches
                /\ pr' = [pr EXCEPT !.call_premium = sub.value, !.is_call = FALSE]
                /\ fetchLog' = Append(log, PendingFetch(pr.current_strike, FALSE))
           ELSE LET call_premium == pr.call_premium[1]
                    put_premium == sub.value[1]
                    results == pr.results \o
                      << [strike    |-> pr.current_strike,
                          premium   |-> call_premium.premium,
                          timestamp |-> call_premium.timestamp],
                         [strike    |-> 0 - pr.current_strike,
                          premium   |-> put_premium.premium,
                          timestamp |-> put_premium.timestamp] >>
                    current_strike == NextStrike(pr.current_strike, pr.step)
                IN  IF LoopContinues(current_strike, pr.max_strike)
                    THEN /\ Len(log) < MaxFetches
                         /\ pr' = [pr EXCEPT !.results = results,
                                             !.call_premium = None,
                                             !.current_strike = current_strike,
                                             !.strike = current_strike,
                                             !.is_call = TRUE]
                         /\ fetchLog' = Append(log, PendingFetch(current_strike, TRUE))
                    ELSE /\ pr' = [pr EXCEPT !.pc = "done", !.outcome = "ok",
                                             !.results = results,
                                             !.call_premium = None,
                                             !.current_strike = current_strike,
                                             !.value = results]
                         /\ fetchLog' = log
  /\ UNCHANGED <<fx, lock, price_feeds, last_prices, upd, got, ncalls, used, lastInserted>>

\* the engine as built: the volatility comes from fetch_volatility
PricingFetched == PricingFetchedGiven({FetchVolatility(pr.symbol)})

\* the unwrap_or of line 242 against both values a Result can take
PricingFetchedAnyVolatility ==
  PricingFetchedGiven({FetchVolatility(pr.symbol), VolatilityFailed})

\* the client takes the result of the pricing call
PricingReturn ==
  /\ pr.pc = "done"
  /\ pr' = IdlePr
  /\ fetchLog' = <<>>
  /\ UNCHANGED <<fx, lock, price_feeds, last_prices, upd, got, ncalls, used, lastInserted>>

\* ------------------------------------------------------------ the callers

\* The symbols a caller passes.  Registered symbols not requested so far are
\* interchangeable (eviction picks any key), so of those only the next one
\* is tried.
Min(a, b) == IF a < b THEN a ELSE b

NextFresh == Min(used + 1, NumFeeds)

CallSymbols == 1..NextFresh

\* one caller: any symbol requested before, the next new one, a symbol the
\* registry lacks, and the empty list
Watchlists ==
  { <<s>> : s \in CallSymbols } \cup { <<NoSuchSymbol>>, <<>> }

\* a caller passing lists of several symbols, as main() does
ListWatchlists ==
  { <<s>> \o rest : s \in CallSymbols, rest \in { <<BTC>>, <<ETH, SUI>> } }

\* concurrent callers: refreshes of SUI and requests of new symbols
RaceWatchlists == { <<SUI>>, <<NextFresh>> }

\* tasks calling the engine concurrently
Next ==
  \/ \E p \in Updaters, w \in RaceWatchlists :
       ncalls < MaxCalls /\ StartPriceUpdates(p, w)
  \/ \E p \in Updaters : UpdateFetched(p)
  \/ \E p \in Updaters : EvictSection(p)
  \/ \E p \in Updaters : InsertSection(p)

Spec == Init /\ [][Next]_vars

\* one caller: a call starts only when no other is in progress
Quiet == \A p \in Updaters : upd[p].pc = "idle"

NextCache ==
  \/ \E w \in Watchlists :
       ncalls < MaxCalls /\ Quiet /\ StartPriceUpdates("u1", w)
  \/ UpdateFetched("u1")
  \/ UpdateCancelled("u1")
  \/ EvictSection("u1")
  \/ InsertSection("u1")

SpecCache == Init /\ [][NextCache]_vars

\* one caller passing lists of several symbols
NextList ==
  \/ \E w \in ListWatchlists :
       ncalls < MaxCalls /\ Quiet /\ StartPriceUpdates("u1", w)
  \/ UpdateFetched("u1")
  \/ EvictSection("u1")
  \/ InsertSection("u1")

SpecList == Init /\ [][NextList]_vars

\* one task refreshing the cache while another reads it
NextRead ==
  \/ \E w \in RaceWatchlists :
       ncalls < MaxCalls /\ StartPriceUpdates("u1", w)
  \/ UpdateFetched("u1")
  \/ EvictSection("u1")
  \/ InsertSection("u1")
  \/ \E s \in {SUI, NextFresh} : GetLastPrice(s)
  \/ ReaderReturn

SpecRead == Init /\ [][NextRead]_vars

\* the engine as main() builds it: PythOracle::new, then
\* OptionsPricingEngine::new
InitPricing ==
  /\ price_feeds = NewPriceFeeds
  /\ InitEngine

\* the arguments the clients of the pricing path pass
PricingSymbols == {SUI, BTC}
Strikes == {100}
Days == {7}
MinStrikes == {100, 110}
MaxStrikes == {100, 120, 125}
Steps == {0 - 10, 0, 10, 20}

\* a client of the pricing path, and a task refreshing the SUI price
NextPricing ==
  \/ \E s \in PricingSymbols, k \in Strikes, d \in Days, c \in BOOLEAN :
       CallOptionPremium(s, k, d, c)
  \/ \E s \in PricingSymbols, d \in Days,
        lo \in MinStrikes, hi \in MaxStrikes, st \in Steps :
       CallPremiumCurve(s, d, lo, hi, st)
  \/ PricingFetched
  \/ PricingReturn
  \/ ncalls < MaxRefresh /\ StartPriceUpdates("u1", <<SUI>>)
  \/ UpdateFetched("u1")
  \/ EvictSection("u1")
  \/ InsertSection("u1")

SpecPricing == InitPricing /\ [][NextPricing]_vars

\* the engine main() builds, with every operation in use: a client of the
\* pricing path, a reader, and a task refreshing the SUI price
NextFrame ==
  \/ \E s \in PricingSymbols, k \in Strikes, d \in Days, c \in BOOLEAN :
       CallOptionPremium(s, k, d, c)
  \/ \E s \in PricingSymbols, d \in Days : CallPremiumCurve(s, d, 100, 110, 10)
  \/ PricingFetched
  \/ PricingReturn
  \/ ncalls < MaxRefresh /\ StartPriceUpdates("u1", <<SUI>>)
  \/ UpdateFetched("u1")
  \/ EvictSection("u1")
  \/ InsertSection("u1")
  \/ \E s \in PricingSymbols : GetLastPrice(s)
  \/ ReaderReturn

SpecFrame == InitPricing /\ [][NextFrame]_vars

\* a client of the pricing path, with the volatility fetch returning either
\* value of its Result type
NextVol ==
  \/ \E s \in PricingSymbols, k \in Strikes, d \in Days, c \in BOOLEAN :
       CallOptionPremium(s, k, d, c)
  \/ \E s \in PricingSymbols, d \in Days : CallPremiumCurve(s, d, 100, 110, 10)
  \/ PricingFetchedAnyVolatility
  \/ PricingReturn

SpecVol == InitPricing /\ [][NextVol]_vars

\* Two tasks refreshing the SUI price and a reader, on the engine main()
\* builds.  The runtime keeps running a task that can take a step, and each
\* lock section is finite: a section that stays enabled is eventually taken.
\* Nothing is assumed of the network: a fetch may never resolve.
NextLive ==
  \/ \E p \in Updaters : ncalls < MaxRefresh /\ StartPriceUpdates(p, <<SUI>>)
  \/ \E p \in Updaters : UpdateFetched(p)
  \/ \E p \in Updaters : UpdateCancelled(p)
  \/ \E p \in Updaters : EvictSection(p)
  \/ \E p \in Updaters : InsertSection(p)
  \/ GetLastPrice(SUI)
  \/ ReaderReturn

SpecLive ==
  /\ InitPricing
  /\ [][NextLive]_vars
  /\ \A p \in Updaters : WF_vars(EvictSection(p)) /\ WF_vars(InsertSection(p))

\* one caller of fetch_pyth_price_real, against every service behaviour
NextFetch ==
  \/ \E feed_id \in CalledFeeds, opened \in BOOLEAN :
       \E stream \in Streams(feed_id) : FetchCall(feed_id, opened, stream)
  \/ FetchResolve
  \/ FetchReturn

SpecFetch == InitPricing /\ [][NextFetch]_vars

\* ------------------------------------------------------------- the cache

\* C1 (as claimed): in every reachable state the cache holds at most K
\* entries, also when start_price_updates calls interleave.
C1_CacheAtMostK == Size(last_prices) <= K

\* C2 (as claimed): whenever get_last_price reads the cache while an insert
\* is between its two critical sections, no entry has been evicted for that
\* insert yet (the reader sees the cache as before the insert, with its size).
C2_ReaderSeesNoPartialInsert ==
  [][ (got.pc = "idle" /\ got'.pc = "returned")
        => \A p \in Updaters : upd[p].pc = "insert" => ~upd[p].evicted ]_vars

\* K+1 calls have run one after the other, for K+1 distinct symbols, and
\* each has inserted its sample
RanKPlus1Distinct ==
  /\ Quiet
  /\ ncalls = K + 1
  /\ used = K + 1
  /\ DOMAIN lastInserted = 1..(K + 1)

\* C3: after K+1 sequential calls for distinct symbols on the empty cache the
\* size is exactly K, get_last_price returns for every symbol still cached
\* the sample last inserted for it, and none for every other symbol.
C3_KPlus1DistinctSymbols ==
  RanKPlus1Distinct =>
    /\ Size(last_prices) = K
    /\ \A s \in 0..NumFeeds :
         get_last_price(last_prices, s) =
           IF s \in DOMAIN last_prices THEN Some(lastInserted[s]) ELSE None

C3_Witness ==
  /\ RanKPlus1Distinct
  /\ Size(last_prices) = K
  /\ \E s \in 1..(K + 1) : get_last_price(last_prices, s) = None

\* C4 (as claimed): the first critical section of a call whose symbol is
\* already in a full cache evicts nothing.
C4_NoEvictionWhenPresent ==
  [][ \A p \in Updaters :
        ( /\ upd[p].pc = "evict"
          /\ upd'[p].pc = "insert"
          /\ Size(last_prices) = K
          /\ upd[p].symbols[1] \in DOMAIN last_prices )
        => last_prices' = last_prices ]_vars

\* ------------------------------------------------------- the pricing path

PremiumDone == pr.op = "premium" /\ pr.pc = "done"
CurveDone == pr.op = "curve" /\ pr.pc = "done"

\* C5 (as claimed): calculate_option_premium for a symbol the registry lacks
\* returns the error UnknownSymbol, and no fetch is attempted.
C5_UnknownSymbolIsAnError ==
  (PremiumDone /\ pr.symbol \notin DOMAIN price_feeds) =>
    /\ pr.outcome = "err"
    /\ pr.error = "UnknownSymbol"
    /\ fetchLog = <<>>

\* C6 (as claimed): calculate_premium_curve with step <= 0 performs no fetch
\* and returns the error InvalidRange.
C6_NonPositiveStepIsInvalidRange ==
  (pr.op = "curve" /\ pr.step <= 0) =>
    /\ fetchLog = <<>>
    /\ pr.pc = "done" => (pr.outcome = "err" /\ pr.error = "InvalidRange")

\* the number of strikes min, min+step, ... that are <= max (step > 0)
StrikeCount(min_strike, max_strike, step) ==
  IF min_strike > max_strike THEN 0
  ELSE ((max_strike - min_strike) \div step) + 1

\* the i-th strike of the grid
GridStrike(min_strike, step, i) == min_strike + (i - 1) * step

CurveSucceeded == CurveDone /\ pr.outcome = "ok" /\ pr.step > 0

\* C7: a successful curve with step > 0 holds, for each strike of the grid in
\* ascending order, the call result with strike +s and right after it the
\* put result with strike -s, and nothing else.
C7_CurveIsTheStrikeGrid ==
  CurveSucceeded =>
    LET n == StrikeCount(pr.min_strike, pr.max_strike, pr.step)
    IN  /\ Len(pr.value) = 2 * n
        /\ \A i \in 1..n :
             LET s == GridStrike(pr.min_strike, pr.step, i)
                 call == pr.value[2 * i - 1]
                 put == pr.value[2 * i]
             IN  /\ s <= pr.max_strike
                 /\ call.strike = s
                 /\ call.premium.is_call
                 /\ call.premium.strike_price = s
                 /\ put.strike = 0 - s
                 /\ ~put.premium.is_call
                 /\ put.premium.strike_price = s
        /\ GridStrike(pr.min_strike, pr.step, n + 1) > pr.max_strike

StrikesOf(results) == [i \in 1..Len(results) |-> results[i].strike]

C7_Witness ==
  /\ CurveSucceeded
  /\ pr.min_strike = 100 /\ pr.max_strike = 120 /\ pr.step = 10
  /\ StrikesOf(pr.value) = <<100, 0 - 100, 110, 0 - 110, 120, 0 - 120>>

\* a premium calculation of the curve has failed: its fetch, or its valuation
SubCalculationFailed(i) == fetchLog[i].calc \in {"err", "panicked"}

\* C8: once a premium calculation inside a curve has failed, the curve has
\* ended with that failure, it returns no results, and the failed
\* calculation's fetch is the last fetch started.
C8_CurveStopsAtFirstFailure ==
  \A i \in 1..Len(fetchLog) :
    (pr.op = "curve" /\ SubCalculationFailed(i)) =>
      /\ i = Len(fetchLog)
      /\ pr.pc = "done"
      /\ pr.outcome = fetchLog[i].calc
      /\ pr.outcome = "err" => pr.error = "Failed to fetch price for symbol"
      /\ pr.value = <<>>
      /\ pr.results = <<>>

C8_Witness ==
  /\ CurveDone
  /\ Len(fetchLog) = 3
  /\ fetchLog[3].state = "err"
  /\ pr.outcome = "err"
  /\ pr.value = <<>>

CeilDiv(a, b) == IF a % b = 0 THEN a \div b ELSE (a \div b) + 1

CurveSucceededInRange == CurveSucceeded /\ pr.min_strike <= pr.max_strike

\* the fetches of a curve run one at a time: only the last can be in flight
OneFetchAtATime ==
  \A i \in 1..Len(fetchLog) : fetchLog[i].state = "pending" => i = Len(fetchLog)

\* the i-th pair of fetches is the call, then the put, of the i-th strike
FetchedInGridOrder ==
  \A i \in 1..Len(fetchLog) :
    /\ fetchLog[i].strike = GridStrike(pr.min_strike, pr.step, (i + 1) \div 2)
    /\ fetchLog[i].is_call = (i % 2 = 1)

\* C9 (as claimed): a successful curve with step > 0 and min <= max performs
\* 2 * ceil((max - min) / step + 1) fetches.
C9_FetchCountCeiling ==
  CurveSucceededInRange =>
    Len(fetchLog) = 2 * (CeilDiv(pr.max_strike - pr.min_strike, pr.step) + 1)

\* C9 (amended): a successful curve with step > 0 and min <= max performs
\* 2 * (floor((max - min) / step) + 1) fetches, one per strike per side, the
\* call of a strike before its put and both before the next strike, never
\* two at a time.
C9_FetchCountFloor ==
  /\ pr.op = "curve" => OneFetchAtATime
  /\ (pr.op = "curve" /\ pr.step > 0) => FetchedInGridOrder
  /\ CurveSucceededInRange =>
       Len(fetchLog) = 2 * (((pr.max_strike - pr.min_strike) \div pr.step) + 1)

C9_Witness ==
  /\ CurveSucceededInRange
  /\ pr.min_strike = 100 /\ pr.max_strike = 125 /\ pr.step = 10
  /\ Len(fetchLog) = 6

\* C10: a calculate_option_premium call for a registered symbol makes one
\* fetch; if the fetch fails the call returns the price-fetch error, and a
\* successful result is priced from the spot that fetch returned.
C10_OneFetchPerPremium ==
  (pr.op = "premium" /\ pr.symbol \in DOMAIN price_feeds) =>
    /\ Len(fetchLog) = 1
    /\ PremiumDone =>
         /\ fetchLog[1].state \in {"ok", "err"}
         /\ fetchLog[1].state = "err" =>
              (pr.outcome = "err" /\ pr.error = "Failed to fetch price for symbol"
                 /\ pr.value = <<>>)
         /\ pr.outcome = "ok" =>
              /\ fetchLog[1].state = "ok"
              /\ pr.value[1].premium.underlying_price = fetchLog[1].price

\* a premium priced while the cache holds another price for the symbol
C10_Witness ==
  /\ PremiumDone
  /\ pr.outcome = "ok"
  /\ pr.symbol \in DOMAIN last_prices
  /\ last_prices[pr.symbol].price # pr.value[1].premium.underlying_price

\* ------------------------------------------------- what touches the cache

\* a step of start_price_updates inside one of its two critical sections
UpdaterSectionStep ==
  \E p \in Updaters : upd[p].pc \in {"evict", "insert"} /\ upd'[p] # upd[p]

\* the premium a finished calculate_option_premium returned is one the call
\* yields with an empty cache
PremiumOwesNothingToCache ==
  (pr.op = "premium" /\ pr.pc = "fetch" /\ pr'.outcome = "ok") =>
    \E r \in FetchResults(price_feeds, price_feeds[pr.symbol]) :
      pr'.value = PremiumAfterFetch(pr.symbol, pr.strike, pr.days_to_expiry,
                                    pr.is_call, r, FetchVolatility(pr.symbol),
                                    TRUE, EmptyMap,
                                    Len(fetchLog)).value

\* C11: the cache is empty at construction; every step of
\* calculate_option_premium, calculate_premium_curve and get_last_price
\* leaves it unchanged, whatever the step's outcome; only the critical
\* sections of start_price_updates change it; and the premium returned does
\* not depend on what the cache holds.
C11_OnlyUpdatesChangeTheCache ==
  /\ last_prices = EmptyMap
  /\ [][ /\ (pr' # pr \/ got' # got) => last_prices' = last_prices
         /\ last_prices' # last_prices => UpdaterSectionStep
         /\ PremiumOwesNothingToCache ]_vars

\* a premium call, a curve call and a read have each run while the cache
\* held a sample: here a pricing call has failed over a non-empty cache
C11_Witness ==
  /\ last_prices # EmptyMap
  /\ pr.pc = "done"
  /\ pr.outcome \in {"err", "panicked"}
  /\ got.pc = "returned"
  /\ got.result # None

\* an item that carries parsed price data
WellFormed(item) == item.kind = "ok" /\ item.parsed # <<>>

\* the positions of the samples in a stream
SamplesIn(stream) == { i \in 1..Len(stream) : WellFormed(stream[i]) }

\* C12: a fetch whose subscription opened resolves with the first item of the
\* stream, in stream order, that carries parsed price data; the items before
\* it are skipped; when the stream ends without such an item the fetch is an
\* error and carries no sample.
C12_FirstWellFormedSample ==
  (fx.pc = "done" /\ fx.opened) =>
    IF SamplesIn(fx.stream) = {}
    THEN ~fx.result.ok /\ fx.result.data = None
    ELSE \E i \in SamplesIn(fx.stream) :
           /\ \A j \in SamplesIn(fx.stream) : i <= j
           /\ fx.result.ok
           /\ fx.result.data =
                Some(PriceData(price_feeds, fx.feed_id, fx.stream[i].parsed[1]))

\* a skipped update came first, then two different samples: the first one is
\* the result
C12_Witness ==
  /\ fx.pc = "done"
  /\ fx.opened
  /\ Len(fx.stream) = 3
  /\ ~WellFormed(fx.stream[1])
  /\ fx.stream[1].kind # "err"
  /\ WellFormed(fx.stream[2])
  /\ WellFormed(fx.stream[3])
  /\ fx.stream[2] # fx.stream[3]
  /\ fx.result.ok
  /\ fx.result.data[1].timestamp = fx.stream[2].parsed[1].publish_time

\* an error event is delivered on the stream before any sample
ErrorBeforeSample(stream) ==
  \E i \in 1..Len(stream) :
    /\ stream[i].kind = "err"
    /\ \A j \in 1..(i - 1) : ~WellFormed(stream[j])

\* C13: when the subscription fails to open, or an error event is delivered
\* on the stream before any sample, the fetch is an error.
C13_TransportErrorFailsTheFetch ==
  (fx.pc = "done" /\ (~fx.opened \/ ErrorBeforeSample(fx.stream))) =>
    ~fx.result.ok

\* C13 as the code has it: a subscription that fails to open fails the fetch;
\* once it is open an error event is skipped like any other item without a
\* sample, and the fetch fails only when the stream ends without a sample.
C13_OnlyOpenFailureFailsTheFetch ==
  fx.pc = "done" =>
    /\ ~fx.opened => (~fx.result.ok /\ fx.result.data = None)
    /\ fx.opened => (fx.result.ok <=> SamplesIn(fx.stream) # {})

\* an error event came first and the fetch still resolved with the sample
\* behind it; and a fetch whose subscription did not open is distinguished
\* by opened
C13_Witness ==
  /\ fx.pc = "done"
  /\ fx.opened
  /\ Len(fx.stream) >= 2
  /\ fx.stream[1].kind = "err"
  /\ WellFormed(fx.stream[2])
  /\ fx.result.ok

\* C15: when the fetch of a start_price_updates call fails, or the call is
\* dropped while the fetch is in flight, the call ends there: the cache is
\* exactly what it was (nothing evicted, nothing inserted) and its lock is
\* free, neither held nor poisoned, so later calls can use it.
C15_FailedFetchLeavesCache ==
  [][ \A p \in Updaters :
        (upd[p].pc = "fetch" /\ upd'[p].pc = "idle") =>
          /\ upd'[p].outcome \in {"panicked", "cancelled"}
          /\ last_prices' = last_prices
          /\ lastInserted' = lastInserted
          /\ lock' = "free" ]_vars

\* a call was dropped in flight while the cache was full: no entry was evicted
C15_Witness ==
  /\ upd["u1"].outcome = "cancelled"
  /\ Size(last_prices) = K
  /\ lock = "free"

\* the premium call in hand fetched its price and then did not produce a
\* premium: calc_price() failed
ValuationFailed ==
  /\ PremiumDone
  /\ fetchLog # <<>>
  /\ fetchLog[1].state = "ok"
  /\ pr.outcome # "ok"

\* C16 (as claimed): a failure of the valuation is returned to the caller as
\* the error ValuationError.
C16_ValuationFailureIsAnError ==
  ValuationFailed => (pr.outcome = "err" /\ pr.error = "ValuationError")

\* C17: a premium call whose volatility fetch failed is priced with
\* default_volatility, and one whose volatility fetch succeeded is priced with
\* the fetched value; the only error a premium call returns is that of its
\* price fetch.
C17_VolatilityFallsBackToDefault ==
  /\ (PremiumDone /\ pr.outcome = "ok") =>
       /\ fetchLog[1].vol \in {"ok", "err"}
       /\ fetchLog[1].vol = "err" =>
            pr.value[1].premium.volatility = DefaultVolatility
       /\ fetchLog[1].vol = "ok" =>
            pr.value[1].premium.volatility = FetchVolatility(pr.symbol).vol
  /\ (PremiumDone /\ pr.outcome = "err") => fetchLog[1].state = "err"

\* a premium priced after a failed volatility fetch, for a symbol whose
\* fetched volatility would have been another value
C17_Witness ==
  /\ PremiumDone
  /\ pr.outcome = "ok"
  /\ fetchLog[1].vol = "err"
  /\ pr.value[1].premium.volatility = DefaultVolatility
  /\ FetchVolatility(pr.symbol).vol # DefaultVolatility

\* C18: a start_price_updates call whose fetch returned a sample completes
\* its insert and returns, whatever the other tasks do; no task holds the
\* cache lock while its fetch is in flight, and the lock is never left held
\* or poisoned.
C18_FetchedUpdateCompletes ==
  /\ \A p \in Updaters :
       (upd[p].pc = "evict") ~> (upd[p].pc = "idle" /\ upd[p].outcome = "returned")
  /\ [](\A p \in Updaters : upd[p].pc = "fetch" => lock # p)
  /\ [](lock = "free")

\* one task has its sample and waits for its first section while the other
\* has a fetch in flight and the reader has just read
C18_Witness ==
  /\ upd["u1"].pc = "evict"
  /\ upd["u2"].pc = "fetch"
  /\ got.pc = "returned"
  /\ lock = "free"

\* the entries of m other than that of key k are those of n, unchanged
SameExcept(m, n, k) ==
  /\ DOMAIN m \ {k} = DOMAIN n \ {k}
  /\ \A s \in DOMAIN m \ {k} : m[s] = n[s]

C20_EntriesLabelledByTheirKey ==
  \A s \in DOMAIN last_prices : last_prices[s].symbol = s

\* a full cache, one of whose entries has been replaced by a later sample
C20_Witness ==
  /\ Size(last_prices) = K
  /\ last_prices[SUI].timestamp = 2
  /\ last_prices[SUI].symbol = SUI
  /\ last_prices[K].symbol = K
====
